---- MODULE Spec2Model ----
(***************************************************************************)
(* Model of the demo e-commerce API (src/app/main.py): the fixed product   *)
(* catalog, the process-wide BUG_ENABLED flag, the request handlers, the   *)
(* HTTPException handler and the track_requests middleware.                *)
(*                                                                         *)
(* Strings that the code builds by formatting (the order id, the error     *)
(* detail of get_product, the value of ENABLE_BUG) are sequences of        *)
(* one-character strings, so that formatting and lower-casing are computed *)
(* rather than assumed.  Prices are kept in cents.  Timestamps and the     *)
(* measured duration are left out of the response bodies and log records:  *)
(* no branch of the code depends on them.                                  *)
(*                                                                         *)
(* Record constructors list their fields in the order in which the field   *)
(* names first occur in the module, which is the order TLC normalises      *)
(* records to, so that values shared by TLC's workers are never reordered  *)
(* in place while another worker reads them.                               *)
(***************************************************************************)
EXTENDS Integers, Sequences, FiniteSets, TLC

\* ------------------------------------------------------------------ bounds
\* product ids tried by GET /api/products/{id} range over -1..MaxProductId
MaxProductId == 6
\* number of concurrently served requests in the interleaved specification
NProcs == 2

\* a product id far outside the catalog, tried besides -1..MaxProductId
UnknownId == 999

\* --------------------------------------------------------- program constants
RandLo == 10000
RandHi == 99999

PRODUCTS ==
  << [id |-> 1, name |-> "Laptop",     price |-> 99999, stock |-> 50],
     [id |-> 2, name |-> "Smartphone", price |-> 69999, stock |-> 100],
     [id |-> 3, name |-> "Headphones", price |-> 19999, stock |-> 200],
     [id |-> 4, name |-> "Tablet",     price |-> 44999, stock |-> 75],
     [id |-> 5, name |-> "Smartwatch", price |-> 29999, stock |-> 150] >>

\* Python's None (a record, so that it compares with product records)
None == [none |-> TRUE]

\* ------------------------------------------------------------ text helpers
Chars(s) ==
  CASE s = "true"  -> <<"t","r","u","e">>
    [] s = "TRUE"  -> <<"T","R","U","E">>
    [] s = "True"  -> <<"T","r","u","e">>
    [] s = "tRuE"  -> <<"t","R","u","E">>
    [] s = "false" -> <<"f","a","l","s","e">>
    [] s = "FALSE" -> <<"F","A","L","S","E">>
    [] s = "1"     -> <<"1">>
    [] s = "yes"   -> <<"y","e","s">>
    [] s = "true " -> <<"t","r","u","e"," ">>
    [] s = "tru"   -> <<"t","r","u">>
    [] s = ""      -> << >>

\* str.lower() on one character
LowerChar(c) ==
  CASE c = "T" -> "t"
    [] c = "R" -> "r"
    [] c = "U" -> "u"
    [] c = "E" -> "e"
    [] c = "F" -> "f"
    [] c = "A" -> "a"
    [] c = "L" -> "l"
    [] c = "S" -> "s"
    [] c = "Y" -> "y"
    [] OTHER   -> c

\* str.lower()
lower(s) == [i \in 1..Len(s) |-> LowerChar(s[i])]

DigitChar(d) ==
  CASE d = 0 -> "0" [] d = 1 -> "1" [] d = 2 -> "2" [] d = 3 -> "3"
    [] d = 4 -> "4" [] d = 5 -> "5" [] d = 6 -> "6" [] d = 7 -> "7"
    [] d = 8 -> "8" [] d = 9 -> "9"

RECURSIVE NatStr(_)
NatStr(n) ==
  IF n < 10 THEN <<DigitChar(n)>> ELSE NatStr(n \div 10) \o <<DigitChar(n % 10)>>

\* the text an f-string puts in place of {n} for an int n
IntStr(n) == IF n < 0 THEN <<"-">> \o NatStr(0 - n) ELSE NatStr(n)

\* ------------------------------------------------------------- environment
\* values of the ENABLE_BUG environment variable tried at startup
Unset == [set |-> FALSE]
EnvTexts ==
  <<"true", "TRUE", "True", "tRuE", "false", "FALSE", "1", "yes", "true ",
    "tru", "">>
EnvValues ==
  {Unset} \cup
  {[set |-> TRUE, value |-> Chars(EnvTexts[i])] : i \in 1..Len(EnvTexts)}

\* os.getenv(name, default)
getenv(e, default) == IF e.set THEN e.value ELSE default

\* the comparison without .lower()
InitialBugEnabledCaseSensitive(e) == getenv(e, Chars("false")) = Chars("true")

\* BUG_ENABLED = os.getenv("ENABLE_BUG", "false").lower() == "true"
InitialBugEnabled(e) == lower(getenv(e, Chars("false"))) = Chars("true")

\* ----------------------------------------------------------------- logging
LogRec(level, event) == [level |-> level, event |-> event]

\* ---------------------------------------------------------------- handlers
\* A handler yields what it returns or raises, the records it logs, the
\* value it leaves in BUG_ENABLED and the number of times it read the flag.
Return(body, bug, lg, reads) ==
  [body |-> body, bug |-> bug, reads |-> reads, raised |-> FALSE, log |-> lg]

HTTPException(status_code, detail, bug, lg, reads) ==
  [bug |-> bug, reads |-> reads, raised |-> TRUE, log |-> lg,
   status_code |-> status_code, detail |-> detail]

root(bug) ==
  Return([service |-> "Demo E-Commerce API", status |-> "running",
          version |-> "1.0.0", bug_mode |-> bug],
         bug, << >>, 1)

health_check(bug) ==
  Return([status |-> "healthy"], bug,
         <<LogRec("info", "Health check requested")>>, 0)

\* db_connection_status = None
db_connection_status == None

\* truth value, in a Python condition, of None or of a non-empty dict
Truthy(v) == v # None

get_products(bug) ==
  IF ~Truthy(db_connection_status)
  THEN HTTPException(500,
         <<"Internal Server Error: Database connection validation failed">>,
         bug,
         <<LogRec("info", "Fetching all products"),
           LogRec("error", "Database connection validation failed"),
           LogRec("error", "bug introduced in commit")>>,
         0)
  ELSE IF bug
  THEN HTTPException(500,
         <<"Internal Server Error: Database connection failed">>,
         bug,
         <<LogRec("info", "Fetching all products"),
           LogRec("error", "Database connection failed")>>,
         1)
  ELSE Return([success |-> TRUE, count |-> Len(PRODUCTS), products |-> PRODUCTS],
              bug, <<LogRec("info", "Fetching all products")>>, 1)

\* next((p for p in PRODUCTS if p["id"] == product_id), None)
FindProduct(product_id) ==
  LET hits == {i \in 1..Len(PRODUCTS) : PRODUCTS[i].id = product_id}
  IN  IF hits = {} THEN None
      ELSE PRODUCTS[CHOOSE i \in hits : \A j \in hits : i <= j]

\* get_product with the catalog lookup placed before the test of the flag
get_product_lookup_first(product_id, bug) ==
  LET product == FindProduct(product_id)
  IN  IF ~Truthy(product)
      THEN HTTPException(404, <<"Product not found">>, bug,
                         <<LogRec("info", "Fetching product")>>, 0)
      ELSE IF bug
      THEN HTTPException(500,
             <<"Internal Server Error: Failed to fetch product ">> \o IntStr(product_id),
             bug,
             <<LogRec("info", "Fetching product"),
               LogRec("error", "Failed to fetch product")>>,
             1)
      ELSE Return([success |-> TRUE, product |-> product], bug,
                  <<LogRec("info", "Fetching product")>>, 1)

get_product(product_id, bug) ==
  IF bug
  THEN HTTPException(500,
         <<"Internal Server Error: Failed to fetch product ">> \o IntStr(product_id),
         bug,
         <<LogRec("info", "Fetching product"),
           LogRec("error", "Failed to fetch product")>>,
         1)
  ELSE LET product == FindProduct(product_id)
       IN  IF ~Truthy(product)
           THEN HTTPException(404, <<"Product not found">>, bug,
                              <<LogRec("info", "Fetching product")>>, 1)
           ELSE Return([success |-> TRUE, product |-> product], bug,
                       <<LogRec("info", "Fetching product")>>, 1)

\* f"ORD-{random.randint(10000, 99999)}", n being the value randint returns
OrderId(n) == <<"O", "R", "D", "-">> \o IntStr(n)

create_order(n, bug) ==
  IF bug
  THEN HTTPException(500, <<"Internal Server Error: Order processing failed">>,
         bug,
         <<LogRec("info", "Creating new order"),
           LogRec("error", "Order processing failed")>>,
         1)
  ELSE Return([status |-> "created", success |-> TRUE, order_id |-> OrderId(n)],
              bug, <<LogRec("info", "Creating new order")>>, 1)

RECURSIVE SumStock(_)
\* sum(p["stock"] for p in PRODUCTS[1..k])
SumStock(k) == IF k = 0 THEN 0 ELSE SumStock(k - 1) + PRODUCTS[k].stock

\* [p for p in PRODUCTS if p["stock"] < 100]
LowStock == SelectSeq(PRODUCTS, LAMBDA p : p.stock < 100)

get_inventory(bug) ==
  IF bug
  THEN HTTPException(500,
         <<"Internal Server Error: Inventory service unavailable">>,
         bug,
         <<LogRec("info", "Checking inventory"),
           LogRec("error", "Inventory service unavailable")>>,
         1)
  ELSE Return([success |-> TRUE, total_items |-> SumStock(Len(PRODUCTS)),
               low_stock_items |-> LowStock],
              bug, <<LogRec("info", "Checking inventory")>>, 1)

\* enable_bug flipping the flag instead of setting it
enable_bug_flip(bug) ==
  Return([message |-> "Bug mode enabled", bug_enabled |-> TRUE], ~bug,
         <<LogRec("warning", "BUG MODE ENABLED"),
           LogRec("error", "SIMULATED BUG ACTIVATED")>>,
         1)

enable_bug(bug) ==
  Return([message |-> "Bug mode enabled", bug_enabled |-> TRUE], TRUE,
         <<LogRec("warning", "BUG MODE ENABLED"),
           LogRec("error", "SIMULATED BUG ACTIVATED")>>,
         0)

disable_bug(bug) ==
  Return([message |-> "Bug mode disabled", bug_enabled |-> FALSE], FALSE,
         <<LogRec("info", "Bug mode disabled")>>, 0)

demo_status(bug) ==
  Return([message |-> IF bug THEN "API will return 500 errors"
                             ELSE "API is operating normally",
          bug_enabled |-> bug],
         bug, << >>, 2)

\* ---------------------------------------------------------------- requests
BusinessEndpoints == {"get_products", "get_product", "create_order", "get_inventory"}
ControlEndpoints  == {"enable_bug", "disable_bug"}
OtherEndpoints    == {"root", "health_check", "demo_status"}
Endpoints         == BusinessEndpoints \cup ControlEndpoints \cup OtherEndpoints

ProductIdInputs == (-1..MaxProductId) \cup {UnknownId}
CatalogIds == {PRODUCTS[i].id : i \in 1..Len(PRODUCTS)}

Req(ep, id) == [product_id |-> id, ep |-> ep]
NoRequest == Req("none", 0)

\* the route table: the handler registered for the request's method and path
Route(req, n, bug) ==
  CASE req.ep = "root"          -> root(bug)
    [] req.ep = "health_check"  -> health_check(bug)
    [] req.ep = "get_products"  -> get_products(bug)
    [] req.ep = "get_product"   -> get_product(req.product_id, bug)
    [] req.ep = "create_order"  -> create_order(n, bug)
    [] req.ep = "get_inventory" -> get_inventory(bug)
    [] req.ep = "enable_bug"    -> enable_bug(bug)
    [] req.ep = "disable_bug"   -> disable_bug(bug)
    [] req.ep = "demo_status"   -> demo_status(bug)

JSONResponse(status_code, content) ==
  [status_code |-> status_code, content |-> content]

\* @app.exception_handler(HTTPException)
http_exception_handler(req, exc) ==
  [log |-> <<LogRec("error", "HTTP Exception")>>,
   response |-> JSONResponse(exc.status_code,
                   [status_code |-> exc.status_code, error |-> exc.detail,
                    path |-> req.ep])]

\* what call_next(request) gives the middleware: the handler's return value
\* as a 200 response, or the response of the HTTPException handler
call_next(req, n, bug) ==
  LET h == Route(req, n, bug)
  IN  IF h.raised
      THEN LET e == http_exception_handler(req, h)
           IN  [bug |-> h.bug, reads |-> h.reads,
                log |-> h.log \o e.log, response |-> e.response]
      ELSE [bug |-> h.bug, reads |-> h.reads,
            log |-> h.log, response |-> JSONResponse(200, h.body)]

\* the outcome record with > in place of >= in both comparisons
OutcomeRecStrict(status_code) ==
  IF status_code > 500 THEN LogRec("error", "Request failed")
  ELSE IF status_code > 400 THEN LogRec("warning", "Request client error")
  ELSE LogRec("info", "Request completed")

\* the record track_requests logs once call_next has returned
OutcomeRec(status_code) ==
  IF status_code >= 500 THEN LogRec("error", "Request failed")
  ELSE IF status_code >= 400 THEN LogRec("warning", "Request client error")
  ELSE LogRec("info", "Request completed")

StartedRec == LogRec("info", "Request started")

\* track_requests up to its await of call_next
track_requests_before == <<StartedRec>>

\* track_requests once call_next has returned `resp`: it logs the outcome
\* and returns the response it was given
track_requests_after(resp) ==
  [log |-> <<OutcomeRec(resp.status_code)>>, response |-> resp]

\* @app.middleware("http")
track_requests(req, n, bug) ==
  LET inner == call_next(req, n, bug)
      after == track_requests_after(inner.response)
  IN  [bug        |-> inner.bug,
       reads      |-> inner.reads,
       log        |-> track_requests_before \o inner.log \o after.log,
       response   |-> after.response,
       downstream |-> inner.response]

\* ------------------------------------------------------------------- state
VARIABLES
  env,          \* the ENABLE_BUG environment variable the process started with
  BUG_ENABLED,  \* the module-level flag
  rand,         \* the value random.randint(10000, 99999) returns when next called
  lastWrite,    \* history: the last control handler that ran ("none" at startup)
  request,      \* sequential runs: the request served last
  response,     \* the response track_requests returned for it
  downstream,   \* the response call_next returned to track_requests
  log,          \* the records logged while serving it
  procs         \* interleaved runs: the requests in flight, one per slot

vars == <<env, BUG_ENABLED, rand, lastWrite, request, response, downstream, log, procs>>

\* randint(1000, 99999): a digit short in the lower end
RandRangeShortLow == 1000..RandHi

\* random.randint(10000, 99999) is inclusive at both ends
RandRange == RandLo..RandHi
\* values drawn by calls of randint after the first one of a run
SampleNums == {RandLo, RandHi}

NoResponse == JSONResponse(0, [none |-> TRUE])
Slots == 1..NProcs
IdleProc == [reads |-> 0, log |-> << >>, req |-> NoRequest,
             resp |-> NoResponse, pc |-> "idle", seen |-> {}]

InitCommon ==
  /\ BUG_ENABLED = InitialBugEnabled(env)
  /\ lastWrite = "none"
  /\ request = NoRequest
  /\ response = NoResponse
  /\ downstream = NoResponse
  /\ log = << >>
  /\ procs = [p \in Slots |-> IdleProc]

Init ==
  /\ env \in EnvValues
  /\ rand \in SampleNums
  /\ InitCommon

\* the control handler whose write a request performs, if any
WriteOf(req, old) == IF req.ep \in ControlEndpoints THEN req.ep ELSE old

\* one request served from arrival to response with nothing interleaved
Serve(req) ==
  LET r == track_requests(req, rand, BUG_ENABLED)
  IN  /\ request' = req
      /\ response' = r.response
      /\ downstream' = r.downstream
      /\ log' = r.log
      /\ BUG_ENABLED' = r.bug
      /\ lastWrite' = WriteOf(req, lastWrite)
      /\ IF req.ep = "create_order" /\ ~BUG_ENABLED
         THEN rand' \in SampleNums
         ELSE rand' = rand
      /\ UNCHANGED <<env, procs>>

GetRoot      == Serve(Req("root", 0))
GetHealth    == Serve(Req("health_check", 0))
GetProducts  == Serve(Req("get_products", 0))
GetProduct   == \E id \in ProductIdInputs : Serve(Req("get_product", id))
PostOrders   == Serve(Req("create_order", 0))
GetInventory == Serve(Req("get_inventory", 0))
PostEnableBug  == Serve(Req("enable_bug", 0))
PostDisableBug == Serve(Req("disable_bug", 0))
GetDemoStatus  == Serve(Req("demo_status", 0))

Next ==
  \/ GetRoot
  \/ GetHealth
  \/ GetProducts
  \/ GetProduct
  \/ PostOrders
  \/ GetInventory
  \/ PostEnableBug
  \/ PostDisableBug
  \/ GetDemoStatus

Spec == Init /\ [][Next]_vars

\* Runs whose first order draws any value randint can return.
InitOrders ==
  /\ env = Unset
  /\ rand \in RandRange
  /\ InitCommon

NextOrders ==
  \/ PostOrders
  \/ PostEnableBug
  \/ PostDisableBug

SpecOrders == InitOrders /\ [][NextOrders]_vars

\* ------------------------------------------------------ interleaved requests
\* The handlers are coroutines without an await, so each runs as one step of
\* the event loop; track_requests awaits call_next, so other requests can be
\* served between a request's arrival, its handler and its response.
ConcProductIds == {1, UnknownId}
ConcRequests ==
  {Req(ep, 0) : ep \in Endpoints \ {"get_product"}}
    \cup {Req("get_product", id) : id \in ConcProductIds}

InFlight(q) == procs[q].pc \in {"started", "handled"}

\* a request arrives in slot p: track_requests logs it and awaits call_next
Arrive(p, req) ==
  /\ procs[p].pc \in {"idle", "done"}
  /\ procs' = [procs EXCEPT ![p] =
                 [reads |-> 0, log |-> track_requests_before, req |-> req,
                  resp |-> NoResponse, pc |-> "started",
                  seen |-> {BUG_ENABLED}]]
  /\ UNCHANGED <<env, BUG_ENABLED, rand, lastWrite, request, response,
                 downstream, log>>

\* the handler of the request in slot p runs (and the HTTPException handler
\* after it, if it raised)
Handle(p) ==
  /\ procs[p].pc = "started"
  /\ LET r == call_next(procs[p].req, rand, BUG_ENABLED)
     IN  /\ BUG_ENABLED' = r.bug
         /\ lastWrite' = WriteOf(procs[p].req, lastWrite)
         /\ IF procs[p].req.ep = "create_order" /\ ~BUG_ENABLED
            THEN rand' \in SampleNums
            ELSE rand' = rand
         /\ procs' = [q \in Slots |->
              IF q = p
              THEN [procs[p] EXCEPT !.pc = "handled", !.resp = r.response,
                                    !.log = @ \o r.log, !.reads = r.reads,
                                    !.seen = @ \cup {r.bug}]
              ELSE IF InFlight(q)
              THEN [procs[q] EXCEPT !.seen = @ \cup {r.bug}]
              ELSE procs[q]]
  /\ UNCHANGED <<env, request, response, downstream, log>>

\* call_next returns in slot p: track_requests logs the outcome and responds
Respond(p) ==
  /\ procs[p].pc = "handled"
  /\ LET a == track_requests_after(procs[p].resp)
     IN  procs' = [procs EXCEPT ![p].pc = "done", ![p].resp = a.response,
                                ![p].log = @ \o a.log]
  /\ UNCHANGED <<env, BUG_ENABLED, rand, lastWrite, request, response,
                 downstream, log>>

ArriveAny  == \E p \in Slots : \E req \in ConcRequests : Arrive(p, req)
HandleAny  == \E p \in Slots : Handle(p)
RespondAny == \E p \in Slots : Respond(p)

InitConc ==
  /\ env \in {Unset, [set |-> TRUE, value |-> Chars("true")]}
  /\ rand \in SampleNums
  /\ InitCommon

NextConc ==
  \/ ArriveAny
  \/ HandleAny
  \/ RespondAny

SpecConc == InitConc /\ [][NextConc]_vars

\* ================================================================== claims
IsBusiness(req) == req.ep \in BusinessEndpoints
InCatalog(req)  == req.ep = "get_product" => req.product_id \in CatalogIds
IsSuccess(resp) == resp.status_code = 200 /\ resp.content.success = TRUE

\* the message each business handler gives its injected failure
InjectedFailureDetail(req) ==
  CASE req.ep = "get_products"  -> <<"Internal Server Error: Database connection failed">>
    [] req.ep = "get_product"   ->
         <<"Internal Server Error: Failed to fetch product ">> \o IntStr(req.product_id)
    [] req.ep = "create_order"  -> <<"Internal Server Error: Order processing failed">>
    [] req.ep = "get_inventory" -> <<"Internal Server Error: Inventory service unavailable">>

\* C1: while the bug toggle is on, every business endpoint answers 500 with
\* its fixed injected-failure message.
C1_BugOnFails ==
  (IsBusiness(request) /\ BUG_ENABLED) =>
     /\ response.status_code = 500
     /\ response.content.error = InjectedFailureDetail(request)

\* C2: once disable-bug was the last control call, every business endpoint
\* (get_product for an id of the catalog) answers its normal successful response.
C2_DisableRestores ==
  (lastWrite = "disable_bug" /\ IsBusiness(request) /\ InCatalog(request))
     => IsSuccess(response)

IsUnknownProduct(req) == req.ep = "get_product" /\ req.product_id \notin CatalogIds

\* C3 as stated: get_product for an id outside the catalog answers 404
\* whether the toggle is off or on.
C3_NotFoundAnyToggle ==
  IsUnknownProduct(request) => response.status_code = 404

\* C3 amended: get_product for an id outside the catalog answers 404 while
\* the toggle is off, and the injected 500 while the toggle is on.
C3_NotFoundWhenOff ==
  IsUnknownProduct(request) =>
     response.status_code = (IF BUG_ENABLED THEN 500 ELSE 404)

C3_Witness ==
  /\ request = Req("get_product", UnknownId)
  /\ lastWrite = "disable_bug"
  /\ ~BUG_ENABLED
  /\ response.status_code = 404
  /\ response.content.error = <<"Product not found">>

\* C4: with the toggle off, get_products answers the 5 records of the fixed
\* catalog: count 5, the products are the catalog, their ids are 1..5.
C4_ListsCatalog ==
  (request.ep = "get_products" /\ ~BUG_ENABLED) =>
     /\ response.status_code = 200
     /\ response.content.count = 5
     /\ response.content.products = PRODUCTS
     /\ {response.content.products[i].id : i \in 1..5} = 1..5

IsDigitChar(c) == \E d \in 0..9 : DigitChar(d) = c
DigitValue(c) == CHOOSE d \in 0..9 : DigitChar(d) = c
RECURSIVE ParseDigits(_)
ParseDigits(ds) ==
  IF ds = << >> THEN 0
  ELSE 10 * ParseDigits(SubSeq(ds, 1, Len(ds) - 1)) + DigitValue(ds[Len(ds)])

\* C5: the order_id of every successful create_order response is "ORD-"
\* followed by exactly 5 digits, which read as an integer in 10000..99999.
C5_OrderIdFormat ==
  (request.ep = "create_order" /\ response.status_code = 200) =>
     LET oid == response.content.order_id
     IN  /\ Len(oid) = 9
         /\ SubSeq(oid, 1, 4) = <<"O", "R", "D", "-">>
         /\ \A i \in 5..9 : IsDigitChar(oid[i])
         /\ ParseDigits(SubSeq(oid, 5, 9)) >= 10000
         /\ ParseDigits(SubSeq(oid, 5, 9)) <= 99999

C5_Witness ==
  /\ request.ep = "create_order"
  /\ response.status_code = 200
  /\ response.content.order_id = <<"O", "R", "D", "-", "5", "4", "3", "2", "1">>

\* ENABLE_BUG is set and its value is "true" up to the case of its letters
EnvSaysTrue(e) ==
  /\ e.set
  /\ Len(e.value) = 4
  /\ e.value[1] \in {"t", "T"}
  /\ e.value[2] \in {"r", "R"}
  /\ e.value[3] \in {"u", "U"}
  /\ e.value[4] \in {"e", "E"}

\* C6: the toggle starts true iff ENABLE_BUG is "true" in any letter case
\* (false when unset), and a request other than enable-bug and disable-bug
\* leaves it as it was, also when the request ends in an error.
C6_ToggleFrame ==
  /\ BUG_ENABLED = EnvSaysTrue(env)
  /\ [][request'.ep \notin ControlEndpoints => BUG_ENABLED' = BUG_ENABLED]_vars

C6_Witness ==
  /\ env = [set |-> TRUE, value |-> <<"T", "r", "u", "e">>]
  /\ lastWrite = "none"
  /\ request = Req("get_product", UnknownId)
  /\ response.status_code = 500
  /\ BUG_ENABLED

\* C7: an error response is a 404 of get_product for an unknown id or a 500
\* given while the toggle is on; with the toggle off no endpoint answers 500.
C7_TwoErrorKinds ==
  /\ response.status_code \in {0, 200, 404, 500}
  /\ response.status_code = 404 => IsUnknownProduct(request)
  /\ response.status_code = 500 => (BUG_ENABLED /\ IsBusiness(request))

OutcomeEvents == {"Request failed", "Request client error", "Request completed"}
OutcomeRecs(lg) == {i \in 1..Len(lg) : lg[i].event \in OutcomeEvents}

\* C8: track_requests returns the response call_next gave it and logs one
\* outcome record: at error level iff status >= 500, at warning level iff
\* 400 <= status < 500, at info level otherwise.
C8_WrapperTransparent ==
  request # NoRequest =>
     /\ response = downstream
     /\ Cardinality(OutcomeRecs(log)) = 1
     /\ \A i \in OutcomeRecs(log) :
           /\ (log[i].level = "error") <=> (response.status_code >= 500)
           /\ (log[i].level = "warning") <=>
                 (response.status_code >= 400 /\ response.status_code < 500)
           /\ (log[i].level = "info") <=> (response.status_code < 400)

C8_Witness ==
  /\ request = Req("create_order", 0)
  /\ BUG_ENABLED
  /\ response.status_code = 500
  /\ response = downstream
  /\ log[Len(log)] = [level |-> "error", event |-> "Request failed"]

\* C9: demo_status reports the current toggle; after enable-bug the toggle
\* is true and after disable-bug it is false whatever it was before, both
\* calls answering 200; the toggle is the value of the last control call.
C9_StatusReflectsLastControl ==
  /\ request.ep = "demo_status" =>
        /\ response.status_code = 200
        /\ response.content.bug_enabled = BUG_ENABLED
  /\ request.ep = "enable_bug" =>
        /\ response.status_code = 200
        /\ response.content.bug_enabled = TRUE
        /\ BUG_ENABLED = TRUE
  /\ request.ep = "disable_bug" =>
        /\ response.status_code = 200
        /\ response.content.bug_enabled = FALSE
        /\ BUG_ENABLED = FALSE
  /\ lastWrite = "enable_bug" => BUG_ENABLED = TRUE
  /\ lastWrite = "disable_bug" => BUG_ENABLED = FALSE
  /\ lastWrite = "none" => BUG_ENABLED = EnvSaysTrue(env)

C9_Witness ==
  /\ env = [set |-> TRUE, value |-> <<"t", "r", "u", "e">>]
  /\ lastWrite = "disable_bug"
  /\ request.ep = "demo_status"
  /\ response.content.bug_enabled = FALSE
  /\ response.content.message = "API is operating normally"

Handled(p) == procs[p].pc \in {"handled", "done"}

\* C10: under any interleaving, a business request reads the toggle once
\* and its outcome agrees with a value the toggle held between its arrival
\* and its response (a 500 only if the toggle was on at some instant, any
\* other outcome only if it was off at some instant), and the toggle holds
\* the value of the last control call.
C10_OutcomeMatchesToggle ==
  /\ \A p \in Slots :
        (Handled(p) /\ IsBusiness(procs[p].req)) =>
           /\ procs[p].reads = 1
           /\ procs[p].resp.status_code = 500 => TRUE \in procs[p].seen
           /\ procs[p].resp.status_code # 500 => FALSE \in procs[p].seen
  /\ lastWrite = "enable_bug" => BUG_ENABLED = TRUE
  /\ lastWrite = "disable_bug" => BUG_ENABLED = FALSE

====
